---- MODULE Spec2Model ----
(***************************************************************************)
(* FontCollector (src/fontCollector.py): the override-tag scanner          *)
(* (parseTags, parseLine), the font matcher (searchFont) and the           *)
(* resolution driver (getAssStyle, findUsedFont).                          *)
(*                                                                         *)
(* A Python str is modelled as the sequence of its code points, so that    *)
(* the regular expressions of the source are computed character by         *)
(* character.  A Python set with a data-dependent iteration order is       *)
(* iterated in a nondeterministically chosen order.  An exception that     *)
(* nothing catches is the value ValueError in place of the result, and the *)
(* run ends at pc = "ValueError".                                          *)
(***************************************************************************)
EXTENDS Integers, Sequences, FiniteSets, TLC

VARIABLES
    toks,           \* SpecTags: the tags the input text was written from
    tags,           \* SpecTags: parseTags' argument `tags`
    style,          \* SpecTags, SpecLine: the `style` argument (line style)
    tagStyle,       \* SpecTags: what parseTags returned
    segs,           \* SpecLine: the blocks and texts the line was written from
    lineRawText,    \* SpecLine: parseLine's argument `lineRawText`
    lineStyleSet,   \* SpecLine: what parseLine returned
    fontCollection, \* SpecMatch, Spec: the font pool (a set of Font)
    fontStyle,      \* SpecMatch: searchFont's argument `style`
    fontMatch,      \* SpecMatch: what the latest call of searchFont returned
    prevMatch,      \* SpecMatch: what the call before it returned
    styles,         \* Spec: getAssStyle's dict `styles` (name -> AssStyle)
    events,         \* Spec: subtitle.events
    i,              \* Spec: getAssStyle's loop index (0-based, as enumerate)
    styleSet,       \* Spec: getAssStyle's styleSet, then styleCollection
    pending,        \* Spec: the styles findUsedFont's loop has not reached yet
    fontsFound,     \* Spec: findUsedFont's fontsFound
    fontsMissing,   \* Spec: findUsedFont's fontsMissing
    pc,             \* position of the run
    exitMsg         \* Spec: the style and line the message of sys.exit names

vars == <<toks, tags, style, tagStyle, segs, lineRawText, lineStyleSet,
          fontCollection, fontStyle, fontMatch, prevMatch, styles, events, i,
          styleSet, pending, fontsFound, fontsMissing, pc, exitMsg>>

Min(S) == CHOOSE x \in S : \A y \in S : x <= y
Max(S) == CHOOSE x \in S : \A y \in S : x >= y

(***************************************************************************)
(* Characters                                                              *)
(***************************************************************************)
\* the code points the model names by number
Space == 32
Newline == 10
DottedCapitalI == 304
CombiningDot == 775
CapitalSigma == 931
FinalSmallSigma == 962
SmallSigma == 963

\* A str is a sequence of code points (0 .. 1114111).

\* the printable ASCII characters U+0020..U+007E in code order; U+0060 cannot
\* be written here and has an empty place
Ascii ==
  <<" ", "!", "\"", "#", "$", "%", "&", "'", "(", ")", "*", "+", ",", "-", ".", "/", "0", "1", "2",
    "3", "4", "5", "6", "7", "8", "9", ":", ";", "<", "=", ">", "?", "@", "A", "B", "C", "D", "E",
    "F", "G", "H", "I", "J", "K", "L", "M", "N", "O", "P", "Q", "R", "S", "T", "U", "V", "W", "X",
    "Y", "Z", "[", "\\", "]", "^", "_", "", "a", "b", "c", "d", "e", "f", "g", "h", "i", "j", "k",
    "l", "m", "n", "o", "p", "q", "r", "s", "t", "u", "v", "w", "x", "y", "z", "{", "|", "}", "~">>

\* the code point of a printable ASCII character, the str of a literal
Ord(ch) == Space + (CHOOSE k \in DOMAIN Ascii : Ascii[k] = ch) - 1
Str(chs) == [k \in DOMAIN chs |-> Ord(chs[k])]

\* the characters the patterns and parseTags name
BSlash == Ord("\\")
LBrace == Ord("{")
RBrace == Ord("}")
LParen == Ord("(")
RParen == Ord(")")
Plus == Ord("+")
Minus == Ord("-")
AtSign == Ord("@")
Zero == Ord("0")
One == Ord("1")
LetterB == Ord("b")
LetterF == Ord("f")
LetterI == Ord("i")
LetterN == Ord("n")
LetterR == Ord("r")

Range(f) == {f[k] : k \in DOMAIN f}

\* c is in one of the ranges <<first, last>> of R
InRanges(c, R) == \E r \in R : r[1] <= c /\ c <= r[2]

\* The tables below are Python's character data (Unicode 14) for every code
\* point.  str.lower(), str.strip(), int() and the pattern classes \w and \d
\* consult them.

\* the characters \w matches
WordRanges ==
   {<<48, 57>>, <<65, 90>>, <<95, 95>>, <<97, 122>>, <<170, 170>>, <<178, 179>>, <<181, 181>>,
    <<185, 186>>, <<188, 190>>, <<192, 214>>, <<216, 246>>, <<248, 705>>, <<710, 721>>,
    <<736, 740>>, <<748, 748>>, <<750, 750>>, <<880, 884>>, <<886, 887>>, <<890, 893>>,
    <<895, 895>>, <<902, 902>>, <<904, 906>>, <<908, 908>>, <<910, 929>>, <<931, 1013>>,
    <<1015, 1153>>, <<1162, 1327>>, <<1329, 1366>>, <<1369, 1369>>, <<1376, 1416>>, <<1488, 1514>>,
    <<1519, 1522>>, <<1568, 1610>>, <<1632, 1641>>, <<1646, 1647>>, <<1649, 1747>>, <<1749, 1749>>,
    <<1765, 1766>>, <<1774, 1788>>, <<1791, 1791>>, <<1808, 1808>>, <<1810, 1839>>, <<1869, 1957>>,
    <<1969, 1969>>, <<1984, 2026>>, <<2036, 2037>>, <<2042, 2042>>, <<2048, 2069>>, <<2074, 2074>>,
    <<2084, 2084>>, <<2088, 2088>>, <<2112, 2136>>, <<2144, 2154>>, <<2160, 2183>>, <<2185, 2190>>,
    <<2208, 2249>>, <<2308, 2361>>, <<2365, 2365>>, <<2384, 2384>>, <<2392, 2401>>, <<2406, 2415>>,
    <<2417, 2432>>, <<2437, 2444>>, <<2447, 2448>>, <<2451, 2472>>, <<2474, 2480>>, <<2482, 2482>>,
    <<2486, 2489>>, <<2493, 2493>>, <<2510, 2510>>, <<2524, 2525>>, <<2527, 2529>>, <<2534, 2545>>,
    <<2548, 2553>>, <<2556, 2556>>, <<2565, 2570>>, <<2575, 2576>>, <<2579, 2600>>, <<2602, 2608>>,
    <<2610, 2611>>, <<2613, 2614>>, <<2616, 2617>>, <<2649, 2652>>, <<2654, 2654>>, <<2662, 2671>>,
    <<2674, 2676>>, <<2693, 2701>>, <<2703, 2705>>, <<2707, 2728>>, <<2730, 2736>>, <<2738, 2739>>,
    <<2741, 2745>>, <<2749, 2749>>, <<2768, 2768>>, <<2784, 2785>>, <<2790, 2799>>, <<2809, 2809>>,
    <<2821, 2828>>, <<2831, 2832>>, <<2835, 2856>>, <<2858, 2864>>, <<2866, 2867>>, <<2869, 2873>>,
    <<2877, 2877>>, <<2908, 2909>>, <<2911, 2913>>, <<2918, 2927>>, <<2929, 2935>>, <<2947, 2947>>,
    <<2949, 2954>>, <<2958, 2960>>, <<2962, 2965>>, <<2969, 2970>>, <<2972, 2972>>, <<2974, 2975>>,
    <<2979, 2980>>, <<2984, 2986>>, <<2990, 3001>>, <<3024, 3024>>, <<3046, 3058>>, <<3077, 3084>>,
    <<3086, 3088>>, <<3090, 3112>>, <<3114, 3129>>, <<3133, 3133>>, <<3160, 3162>>, <<3165, 3165>>,
    <<3168, 3169>>, <<3174, 3183>>, <<3192, 3198>>, <<3200, 3200>>, <<3205, 3212>>, <<3214, 3216>>,
    <<3218, 3240>>, <<3242, 3251>>, <<3253, 3257>>, <<3261, 3261>>, <<3293, 3294>>, <<3296, 3297>>,
    <<3302, 3311>>, <<3313, 3314>>, <<3332, 3340>>, <<3342, 3344>>, <<3346, 3386>>, <<3389, 3389>>,
    <<3406, 3406>>, <<3412, 3414>>, <<3416, 3425>>, <<3430, 3448>>, <<3450, 3455>>, <<3461, 3478>>,
    <<3482, 3505>>, <<3507, 3515>>, <<3517, 3517>>, <<3520, 3526>>, <<3558, 3567>>, <<3585, 3632>>,
    <<3634, 3635>>, <<3648, 3654>>, <<3664, 3673>>, <<3713, 3714>>, <<3716, 3716>>, <<3718, 3722>>,
    <<3724, 3747>>, <<3749, 3749>>, <<3751, 3760>>, <<3762, 3763>>, <<3773, 3773>>, <<3776, 3780>>,
    <<3782, 3782>>, <<3792, 3801>>, <<3804, 3807>>, <<3840, 3840>>, <<3872, 3891>>, <<3904, 3911>>,
    <<3913, 3948>>, <<3976, 3980>>, <<4096, 4138>>, <<4159, 4169>>, <<4176, 4181>>, <<4186, 4189>>,
    <<4193, 4193>>, <<4197, 4198>>, <<4206, 4208>>, <<4213, 4225>>, <<4238, 4238>>, <<4240, 4249>>,
    <<4256, 4293>>, <<4295, 4295>>, <<4301, 4301>>, <<4304, 4346>>, <<4348, 4680>>, <<4682, 4685>>,
    <<4688, 4694>>, <<4696, 4696>>, <<4698, 4701>>, <<4704, 4744>>, <<4746, 4749>>, <<4752, 4784>>,
    <<4786, 4789>>, <<4792, 4798>>, <<4800, 4800>>, <<4802, 4805>>, <<4808, 4822>>, <<4824, 4880>>,
    <<4882, 4885>>, <<4888, 4954>>, <<4969, 4988>>, <<4992, 5007>>, <<5024, 5109>>, <<5112, 5117>>,
    <<5121, 5740>>, <<5743, 5759>>, <<5761, 5786>>, <<5792, 5866>>, <<5870, 5880>>, <<5888, 5905>>,
    <<5919, 5937>>, <<5952, 5969>>, <<5984, 5996>>, <<5998, 6000>>, <<6016, 6067>>, <<6103, 6103>>,
    <<6108, 6108>>, <<6112, 6121>>, <<6128, 6137>>, <<6160, 6169>>, <<6176, 6264>>, <<6272, 6276>>,
    <<6279, 6312>>, <<6314, 6314>>, <<6320, 6389>>, <<6400, 6430>>, <<6470, 6509>>, <<6512, 6516>>,
    <<6528, 6571>>, <<6576, 6601>>, <<6608, 6618>>, <<6656, 6678>>, <<6688, 6740>>, <<6784, 6793>>,
    <<6800, 6809>>, <<6823, 6823>>, <<6917, 6963>>, <<6981, 6988>>, <<6992, 7001>>, <<7043, 7072>>,
    <<7086, 7141>>, <<7168, 7203>>, <<7232, 7241>>, <<7245, 7293>>, <<7296, 7304>>, <<7312, 7354>>,
    <<7357, 7359>>, <<7401, 7404>>, <<7406, 7411>>, <<7413, 7414>>, <<7418, 7418>>, <<7424, 7615>>,
    <<7680, 7957>>, <<7960, 7965>>, <<7968, 8005>>, <<8008, 8013>>, <<8016, 8023>>, <<8025, 8025>>,
    <<8027, 8027>>, <<8029, 8029>>, <<8031, 8061>>, <<8064, 8116>>, <<8118, 8124>>, <<8126, 8126>>,
    <<8130, 8132>>, <<8134, 8140>>, <<8144, 8147>>, <<8150, 8155>>, <<8160, 8172>>, <<8178, 8180>>,
    <<8182, 8188>>, <<8304, 8305>>, <<8308, 8313>>, <<8319, 8329>>, <<8336, 8348>>, <<8450, 8450>>,
    <<8455, 8455>>, <<8458, 8467>>, <<8469, 8469>>, <<8473, 8477>>, <<8484, 8484>>, <<8486, 8486>>,
    <<8488, 8488>>, <<8490, 8493>>, <<8495, 8505>>, <<8508, 8511>>, <<8517, 8521>>, <<8526, 8526>>,
    <<8528, 8585>>, <<9312, 9371>>, <<9450, 9471>>, <<10102, 10131>>, <<11264, 11492>>,
    <<11499, 11502>>, <<11506, 11507>>, <<11517, 11517>>, <<11520, 11557>>, <<11559, 11559>>,
    <<11565, 11565>>, <<11568, 11623>>, <<11631, 11631>>, <<11648, 11670>>, <<11680, 11686>>,
    <<11688, 11694>>, <<11696, 11702>>, <<11704, 11710>>, <<11712, 11718>>, <<11720, 11726>>,
    <<11728, 11734>>, <<11736, 11742>>, <<11823, 11823>>, <<12293, 12295>>, <<12321, 12329>>,
    <<12337, 12341>>, <<12344, 12348>>, <<12353, 12438>>, <<12445, 12447>>, <<12449, 12538>>,
    <<12540, 12543>>, <<12549, 12591>>, <<12593, 12686>>, <<12690, 12693>>, <<12704, 12735>>,
    <<12784, 12799>>, <<12832, 12841>>, <<12872, 12879>>, <<12881, 12895>>, <<12928, 12937>>,
    <<12977, 12991>>, <<13312, 19903>>, <<19968, 42124>>, <<42192, 42237>>, <<42240, 42508>>,
    <<42512, 42539>>, <<42560, 42606>>, <<42623, 42653>>, <<42656, 42735>>, <<42775, 42783>>,
    <<42786, 42888>>, <<42891, 42954>>, <<42960, 42961>>, <<42963, 42963>>, <<42965, 42969>>,
    <<42994, 43009>>, <<43011, 43013>>, <<43015, 43018>>, <<43020, 43042>>, <<43056, 43061>>,
    <<43072, 43123>>, <<43138, 43187>>, <<43216, 43225>>, <<43250, 43255>>, <<43259, 43259>>,
    <<43261, 43262>>, <<43264, 43301>>, <<43312, 43334>>, <<43360, 43388>>, <<43396, 43442>>,
    <<43471, 43481>>, <<43488, 43492>>, <<43494, 43518>>, <<43520, 43560>>, <<43584, 43586>>,
    <<43588, 43595>>, <<43600, 43609>>, <<43616, 43638>>, <<43642, 43642>>, <<43646, 43695>>,
    <<43697, 43697>>, <<43701, 43702>>, <<43705, 43709>>, <<43712, 43712>>, <<43714, 43714>>,
    <<43739, 43741>>, <<43744, 43754>>, <<43762, 43764>>, <<43777, 43782>>, <<43785, 43790>>,
    <<43793, 43798>>, <<43808, 43814>>, <<43816, 43822>>, <<43824, 43866>>, <<43868, 43881>>,
    <<43888, 44002>>, <<44016, 44025>>, <<44032, 55203>>, <<55216, 55238>>, <<55243, 55291>>,
    <<63744, 64109>>, <<64112, 64217>>, <<64256, 64262>>, <<64275, 64279>>, <<64285, 64285>>,
    <<64287, 64296>>, <<64298, 64310>>, <<64312, 64316>>, <<64318, 64318>>, <<64320, 64321>>,
    <<64323, 64324>>, <<64326, 64433>>, <<64467, 64829>>, <<64848, 64911>>, <<64914, 64967>>,
    <<65008, 65019>>, <<65136, 65140>>, <<65142, 65276>>, <<65296, 65305>>, <<65313, 65338>>,
    <<65345, 65370>>, <<65382, 65470>>, <<65474, 65479>>, <<65482, 65487>>, <<65490, 65495>>,
    <<65498, 65500>>, <<65536, 65547>>, <<65549, 65574>>, <<65576, 65594>>, <<65596, 65597>>,
    <<65599, 65613>>, <<65616, 65629>>, <<65664, 65786>>, <<65799, 65843>>, <<65856, 65912>>,
    <<65930, 65931>>, <<66176, 66204>>, <<66208, 66256>>, <<66273, 66299>>, <<66304, 66339>>,
    <<66349, 66378>>, <<66384, 66421>>, <<66432, 66461>>, <<66464, 66499>>, <<66504, 66511>>,
    <<66513, 66517>>, <<66560, 66717>>, <<66720, 66729>>, <<66736, 66771>>, <<66776, 66811>>,
    <<66816, 66855>>, <<66864, 66915>>, <<66928, 66938>>, <<66940, 66954>>, <<66956, 66962>>,
    <<66964, 66965>>, <<66967, 66977>>, <<66979, 66993>>, <<66995, 67001>>, <<67003, 67004>>,
    <<67072, 67382>>, <<67392, 67413>>, <<67424, 67431>>, <<67456, 67461>>, <<67463, 67504>>,
    <<67506, 67514>>, <<67584, 67589>>, <<67592, 67592>>, <<67594, 67637>>, <<67639, 67640>>,
    <<67644, 67644>>, <<67647, 67669>>, <<67672, 67702>>, <<67705, 67742>>, <<67751, 67759>>,
    <<67808, 67826>>, <<67828, 67829>>, <<67835, 67867>>, <<67872, 67897>>, <<67968, 68023>>,
    <<68028, 68047>>, <<68050, 68096>>, <<68112, 68115>>, <<68117, 68119>>, <<68121, 68149>>,
    <<68160, 68168>>, <<68192, 68222>>, <<68224, 68255>>, <<68288, 68295>>, <<68297, 68324>>,
    <<68331, 68335>>, <<68352, 68405>>, <<68416, 68437>>, <<68440, 68466>>, <<68472, 68497>>,
    <<68521, 68527>>, <<68608, 68680>>, <<68736, 68786>>, <<68800, 68850>>, <<68858, 68899>>,
    <<68912, 68921>>, <<69216, 69246>>, <<69248, 69289>>, <<69296, 69297>>, <<69376, 69415>>,
    <<69424, 69445>>, <<69457, 69460>>, <<69488, 69505>>, <<69552, 69579>>, <<69600, 69622>>,
    <<69635, 69687>>, <<69714, 69743>>, <<69745, 69746>>, <<69749, 69749>>, <<69763, 69807>>,
    <<69840, 69864>>, <<69872, 69881>>, <<69891, 69926>>, <<69942, 69951>>, <<69956, 69956>>,
    <<69959, 69959>>, <<69968, 70002>>, <<70006, 70006>>, <<70019, 70066>>, <<70081, 70084>>,
    <<70096, 70106>>, <<70108, 70108>>, <<70113, 70132>>, <<70144, 70161>>, <<70163, 70187>>,
    <<70272, 70278>>, <<70280, 70280>>, <<70282, 70285>>, <<70287, 70301>>, <<70303, 70312>>,
    <<70320, 70366>>, <<70384, 70393>>, <<70405, 70412>>, <<70415, 70416>>, <<70419, 70440>>,
    <<70442, 70448>>, <<70450, 70451>>, <<70453, 70457>>, <<70461, 70461>>, <<70480, 70480>>,
    <<70493, 70497>>, <<70656, 70708>>, <<70727, 70730>>, <<70736, 70745>>, <<70751, 70753>>,
    <<70784, 70831>>, <<70852, 70853>>, <<70855, 70855>>, <<70864, 70873>>, <<71040, 71086>>,
    <<71128, 71131>>, <<71168, 71215>>, <<71236, 71236>>, <<71248, 71257>>, <<71296, 71338>>,
    <<71352, 71352>>, <<71360, 71369>>, <<71424, 71450>>, <<71472, 71483>>, <<71488, 71494>>,
    <<71680, 71723>>, <<71840, 71922>>, <<71935, 71942>>, <<71945, 71945>>, <<71948, 71955>>,
    <<71957, 71958>>, <<71960, 71983>>, <<71999, 71999>>, <<72001, 72001>>, <<72016, 72025>>,
    <<72096, 72103>>, <<72106, 72144>>, <<72161, 72161>>, <<72163, 72163>>, <<72192, 72192>>,
    <<72203, 72242>>, <<72250, 72250>>, <<72272, 72272>>, <<72284, 72329>>, <<72349, 72349>>,
    <<72368, 72440>>, <<72704, 72712>>, <<72714, 72750>>, <<72768, 72768>>, <<72784, 72812>>,
    <<72818, 72847>>, <<72960, 72966>>, <<72968, 72969>>, <<72971, 73008>>, <<73030, 73030>>,
    <<73040, 73049>>, <<73056, 73061>>, <<73063, 73064>>, <<73066, 73097>>, <<73112, 73112>>,
    <<73120, 73129>>, <<73440, 73458>>, <<73648, 73648>>, <<73664, 73684>>, <<73728, 74649>>,
    <<74752, 74862>>, <<74880, 75075>>, <<77712, 77808>>, <<77824, 78894>>, <<82944, 83526>>,
    <<92160, 92728>>, <<92736, 92766>>, <<92768, 92777>>, <<92784, 92862>>, <<92864, 92873>>,
    <<92880, 92909>>, <<92928, 92975>>, <<92992, 92995>>, <<93008, 93017>>, <<93019, 93025>>,
    <<93027, 93047>>, <<93053, 93071>>, <<93760, 93846>>, <<93952, 94026>>, <<94032, 94032>>,
    <<94099, 94111>>, <<94176, 94177>>, <<94179, 94179>>, <<94208, 100343>>, <<100352, 101589>>,
    <<101632, 101640>>, <<110576, 110579>>, <<110581, 110587>>, <<110589, 110590>>,
    <<110592, 110882>>, <<110928, 110930>>, <<110948, 110951>>, <<110960, 111355>>,
    <<113664, 113770>>, <<113776, 113788>>, <<113792, 113800>>, <<113808, 113817>>,
    <<119520, 119539>>, <<119648, 119672>>, <<119808, 119892>>, <<119894, 119964>>,
    <<119966, 119967>>, <<119970, 119970>>, <<119973, 119974>>, <<119977, 119980>>,
    <<119982, 119993>>, <<119995, 119995>>, <<119997, 120003>>, <<120005, 120069>>,
    <<120071, 120074>>, <<120077, 120084>>, <<120086, 120092>>, <<120094, 120121>>,
    <<120123, 120126>>, <<120128, 120132>>, <<120134, 120134>>, <<120138, 120144>>,
    <<120146, 120485>>, <<120488, 120512>>, <<120514, 120538>>, <<120540, 120570>>,
    <<120572, 120596>>, <<120598, 120628>>, <<120630, 120654>>, <<120656, 120686>>,
    <<120688, 120712>>, <<120714, 120744>>, <<120746, 120770>>, <<120772, 120779>>,
    <<120782, 120831>>, <<122624, 122654>>, <<123136, 123180>>, <<123191, 123197>>,
    <<123200, 123209>>, <<123214, 123214>>, <<123536, 123565>>, <<123584, 123627>>,
    <<123632, 123641>>, <<124896, 124902>>, <<124904, 124907>>, <<124909, 124910>>,
    <<124912, 124926>>, <<124928, 125124>>, <<125127, 125135>>, <<125184, 125251>>,
    <<125259, 125259>>, <<125264, 125273>>, <<126065, 126123>>, <<126125, 126127>>,
    <<126129, 126132>>, <<126209, 126253>>, <<126255, 126269>>, <<126464, 126467>>,
    <<126469, 126495>>, <<126497, 126498>>, <<126500, 126500>>, <<126503, 126503>>,
    <<126505, 126514>>, <<126516, 126519>>, <<126521, 126521>>, <<126523, 126523>>,
    <<126530, 126530>>, <<126535, 126535>>, <<126537, 126537>>, <<126539, 126539>>,
    <<126541, 126543>>, <<126545, 126546>>, <<126548, 126548>>, <<126551, 126551>>,
    <<126553, 126553>>, <<126555, 126555>>, <<126557, 126557>>, <<126559, 126559>>,
    <<126561, 126562>>, <<126564, 126564>>, <<126567, 126570>>, <<126572, 126578>>,
    <<126580, 126583>>, <<126585, 126588>>, <<126590, 126590>>, <<126592, 126601>>,
    <<126603, 126619>>, <<126625, 126627>>, <<126629, 126633>>, <<126635, 126651>>,
    <<127232, 127244>>, <<130032, 130041>>, <<131072, 173791>>, <<173824, 177976>>,
    <<177984, 178205>>, <<178208, 183969>>, <<183984, 191456>>, <<194560, 195101>>,
    <<196608, 201546>>}

\* the characters \d matches: runs of the digits 0 to 9 of a script
DecimalRanges ==
   {<<48, 57>>, <<1632, 1641>>, <<1776, 1785>>, <<1984, 1993>>, <<2406, 2415>>, <<2534, 2543>>,
    <<2662, 2671>>, <<2790, 2799>>, <<2918, 2927>>, <<3046, 3055>>, <<3174, 3183>>, <<3302, 3311>>,
    <<3430, 3439>>, <<3558, 3567>>, <<3664, 3673>>, <<3792, 3801>>, <<3872, 3881>>, <<4160, 4169>>,
    <<4240, 4249>>, <<6112, 6121>>, <<6160, 6169>>, <<6470, 6479>>, <<6608, 6617>>, <<6784, 6793>>,
    <<6800, 6809>>, <<6992, 7001>>, <<7088, 7097>>, <<7232, 7241>>, <<7248, 7257>>,
    <<42528, 42537>>, <<43216, 43225>>, <<43264, 43273>>, <<43472, 43481>>, <<43504, 43513>>,
    <<43600, 43609>>, <<44016, 44025>>, <<65296, 65305>>, <<66720, 66729>>, <<68912, 68921>>,
    <<69734, 69743>>, <<69872, 69881>>, <<69942, 69951>>, <<70096, 70105>>, <<70384, 70393>>,
    <<70736, 70745>>, <<70864, 70873>>, <<71248, 71257>>, <<71360, 71369>>, <<71472, 71481>>,
    <<71904, 71913>>, <<72016, 72025>>, <<72784, 72793>>, <<73040, 73049>>, <<73120, 73129>>,
    <<92768, 92777>>, <<92864, 92873>>, <<93008, 93017>>, <<120782, 120831>>, <<123200, 123209>>,
    <<123632, 123641>>, <<125264, 125273>>, <<130032, 130041>>}

\* the characters str.strip() removes
SpaceRanges ==
   {<<9, 13>>, <<28, 32>>, <<133, 133>>, <<160, 160>>, <<5760, 5760>>, <<8192, 8202>>,
    <<8232, 8233>>, <<8239, 8239>>, <<8287, 8287>>, <<12288, 12288>>}

\* the characters str.lower() changes to one character: <<first, last, step,
\* offset>> stands for first, first + step, ..., last, each changed to itself
\* plus offset
LowerRuns ==
   {<<65, 90, 1, 32>>, <<192, 214, 1, 32>>, <<216, 222, 1, 32>>, <<256, 302, 2, 1>>,
    <<306, 310, 2, 1>>, <<313, 327, 2, 1>>, <<330, 374, 2, 1>>, <<376, 376, 1, -121>>,
    <<377, 381, 2, 1>>, <<385, 385, 1, 210>>, <<386, 388, 2, 1>>, <<390, 390, 1, 206>>,
    <<391, 391, 1, 1>>, <<393, 394, 1, 205>>, <<395, 395, 1, 1>>, <<398, 398, 1, 79>>,
    <<399, 399, 1, 202>>, <<400, 400, 1, 203>>, <<401, 401, 1, 1>>, <<403, 403, 1, 205>>,
    <<404, 404, 1, 207>>, <<406, 406, 1, 211>>, <<407, 407, 1, 209>>, <<408, 408, 1, 1>>,
    <<412, 412, 1, 211>>, <<413, 413, 1, 213>>, <<415, 415, 1, 214>>, <<416, 420, 2, 1>>,
    <<422, 422, 1, 218>>, <<423, 423, 1, 1>>, <<425, 425, 1, 218>>, <<428, 428, 1, 1>>,
    <<430, 430, 1, 218>>, <<431, 431, 1, 1>>, <<433, 434, 1, 217>>, <<435, 437, 2, 1>>,
    <<439, 439, 1, 219>>, <<440, 440, 1, 1>>, <<444, 444, 1, 1>>, <<452, 452, 1, 2>>,
    <<453, 453, 1, 1>>, <<455, 455, 1, 2>>, <<456, 456, 1, 1>>, <<458, 458, 1, 2>>,
    <<459, 475, 2, 1>>, <<478, 494, 2, 1>>, <<497, 497, 1, 2>>, <<498, 500, 2, 1>>,
    <<502, 502, 1, -97>>, <<503, 503, 1, -56>>, <<504, 542, 2, 1>>, <<544, 544, 1, -130>>,
    <<546, 562, 2, 1>>, <<570, 570, 1, 10795>>, <<571, 571, 1, 1>>, <<573, 573, 1, -163>>,
    <<574, 574, 1, 10792>>, <<577, 577, 1, 1>>, <<579, 579, 1, -195>>, <<580, 580, 1, 69>>,
    <<581, 581, 1, 71>>, <<582, 590, 2, 1>>, <<880, 882, 2, 1>>, <<886, 886, 1, 1>>,
    <<895, 895, 1, 116>>, <<902, 902, 1, 38>>, <<904, 906, 1, 37>>, <<908, 908, 1, 64>>,
    <<910, 911, 1, 63>>, <<913, 929, 1, 32>>, <<931, 939, 1, 32>>, <<975, 975, 1, 8>>,
    <<984, 1006, 2, 1>>, <<1012, 1012, 1, -60>>, <<1015, 1015, 1, 1>>, <<1017, 1017, 1, -7>>,
    <<1018, 1018, 1, 1>>, <<1021, 1023, 1, -130>>, <<1024, 1039, 1, 80>>, <<1040, 1071, 1, 32>>,
    <<1120, 1152, 2, 1>>, <<1162, 1214, 2, 1>>, <<1216, 1216, 1, 15>>, <<1217, 1229, 2, 1>>,
    <<1232, 1326, 2, 1>>, <<1329, 1366, 1, 48>>, <<4256, 4293, 1, 7264>>, <<4295, 4295, 1, 7264>>,
    <<4301, 4301, 1, 7264>>, <<5024, 5103, 1, 38864>>, <<5104, 5109, 1, 8>>,
    <<7312, 7354, 1, -3008>>, <<7357, 7359, 1, -3008>>, <<7680, 7828, 2, 1>>,
    <<7838, 7838, 1, -7615>>, <<7840, 7934, 2, 1>>, <<7944, 7951, 1, -8>>, <<7960, 7965, 1, -8>>,
    <<7976, 7983, 1, -8>>, <<7992, 7999, 1, -8>>, <<8008, 8013, 1, -8>>, <<8025, 8031, 2, -8>>,
    <<8040, 8047, 1, -8>>, <<8072, 8079, 1, -8>>, <<8088, 8095, 1, -8>>, <<8104, 8111, 1, -8>>,
    <<8120, 8121, 1, -8>>, <<8122, 8123, 1, -74>>, <<8124, 8124, 1, -9>>, <<8136, 8139, 1, -86>>,
    <<8140, 8140, 1, -9>>, <<8152, 8153, 1, -8>>, <<8154, 8155, 1, -100>>, <<8168, 8169, 1, -8>>,
    <<8170, 8171, 1, -112>>, <<8172, 8172, 1, -7>>, <<8184, 8185, 1, -128>>,
    <<8186, 8187, 1, -126>>, <<8188, 8188, 1, -9>>, <<8486, 8486, 1, -7517>>,
    <<8490, 8490, 1, -8383>>, <<8491, 8491, 1, -8262>>, <<8498, 8498, 1, 28>>,
    <<8544, 8559, 1, 16>>, <<8579, 8579, 1, 1>>, <<9398, 9423, 1, 26>>, <<11264, 11311, 1, 48>>,
    <<11360, 11360, 1, 1>>, <<11362, 11362, 1, -10743>>, <<11363, 11363, 1, -3814>>,
    <<11364, 11364, 1, -10727>>, <<11367, 11371, 2, 1>>, <<11373, 11373, 1, -10780>>,
    <<11374, 11374, 1, -10749>>, <<11375, 11375, 1, -10783>>, <<11376, 11376, 1, -10782>>,
    <<11378, 11378, 1, 1>>, <<11381, 11381, 1, 1>>, <<11390, 11391, 1, -10815>>,
    <<11392, 11490, 2, 1>>, <<11499, 11501, 2, 1>>, <<11506, 11506, 1, 1>>, <<42560, 42604, 2, 1>>,
    <<42624, 42650, 2, 1>>, <<42786, 42798, 2, 1>>, <<42802, 42862, 2, 1>>, <<42873, 42875, 2, 1>>,
    <<42877, 42877, 1, -35332>>, <<42878, 42886, 2, 1>>, <<42891, 42891, 1, 1>>,
    <<42893, 42893, 1, -42280>>, <<42896, 42898, 2, 1>>, <<42902, 42920, 2, 1>>,
    <<42922, 42922, 1, -42308>>, <<42923, 42923, 1, -42319>>, <<42924, 42924, 1, -42315>>,
    <<42925, 42925, 1, -42305>>, <<42926, 42926, 1, -42308>>, <<42928, 42928, 1, -42258>>,
    <<42929, 42929, 1, -42282>>, <<42930, 42930, 1, -42261>>, <<42931, 42931, 1, 928>>,
    <<42932, 42946, 2, 1>>, <<42948, 42948, 1, -48>>, <<42949, 42949, 1, -42307>>,
    <<42950, 42950, 1, -35384>>, <<42951, 42953, 2, 1>>, <<42960, 42960, 1, 1>>,
    <<42966, 42968, 2, 1>>, <<42997, 42997, 1, 1>>, <<65313, 65338, 1, 32>>,
    <<66560, 66599, 1, 40>>, <<66736, 66771, 1, 40>>, <<66928, 66964, 2, 39>>,
    <<66929, 66937, 2, 39>>, <<66941, 66953, 2, 39>>, <<66957, 66961, 2, 39>>,
    <<66965, 66965, 1, 39>>, <<68736, 68786, 1, 64>>, <<71840, 71871, 1, 32>>,
    <<93760, 93791, 1, 32>>, <<125184, 125217, 1, 34>>}

\* str.lower() on a capital sigma looks at the characters around it: the cased
\* characters, and the case-ignorable ones it skips
CasedRanges ==
   {<<65, 90>>, <<97, 122>>, <<170, 170>>, <<181, 181>>, <<186, 186>>, <<192, 214>>, <<216, 246>>,
    <<248, 442>>, <<444, 447>>, <<452, 659>>, <<661, 687>>, <<880, 883>>, <<886, 887>>,
    <<891, 893>>, <<895, 895>>, <<902, 902>>, <<904, 906>>, <<908, 908>>, <<910, 929>>,
    <<931, 1013>>, <<1015, 1153>>, <<1162, 1327>>, <<1329, 1366>>, <<1376, 1416>>, <<4256, 4293>>,
    <<4295, 4295>>, <<4301, 4301>>, <<4304, 4346>>, <<4349, 4351>>, <<5024, 5109>>, <<5112, 5117>>,
    <<7296, 7304>>, <<7312, 7354>>, <<7357, 7359>>, <<7424, 7467>>, <<7531, 7543>>, <<7545, 7578>>,
    <<7680, 7957>>, <<7960, 7965>>, <<7968, 8005>>, <<8008, 8013>>, <<8016, 8023>>, <<8025, 8025>>,
    <<8027, 8027>>, <<8029, 8029>>, <<8031, 8061>>, <<8064, 8116>>, <<8118, 8124>>, <<8126, 8126>>,
    <<8130, 8132>>, <<8134, 8140>>, <<8144, 8147>>, <<8150, 8155>>, <<8160, 8172>>, <<8178, 8180>>,
    <<8182, 8188>>, <<8450, 8450>>, <<8455, 8455>>, <<8458, 8467>>, <<8469, 8469>>, <<8473, 8477>>,
    <<8484, 8484>>, <<8486, 8486>>, <<8488, 8488>>, <<8490, 8493>>, <<8495, 8500>>, <<8505, 8505>>,
    <<8508, 8511>>, <<8517, 8521>>, <<8526, 8526>>, <<8544, 8575>>, <<8579, 8580>>, <<9398, 9449>>,
    <<11264, 11387>>, <<11390, 11492>>, <<11499, 11502>>, <<11506, 11507>>, <<11520, 11557>>,
    <<11559, 11559>>, <<11565, 11565>>, <<42560, 42605>>, <<42624, 42651>>, <<42786, 42863>>,
    <<42865, 42887>>, <<42891, 42894>>, <<42896, 42954>>, <<42960, 42961>>, <<42963, 42963>>,
    <<42965, 42969>>, <<42997, 42998>>, <<43002, 43002>>, <<43824, 43866>>, <<43872, 43880>>,
    <<43888, 43967>>, <<64256, 64262>>, <<64275, 64279>>, <<65313, 65338>>, <<65345, 65370>>,
    <<66560, 66639>>, <<66736, 66771>>, <<66776, 66811>>, <<66928, 66938>>, <<66940, 66954>>,
    <<66956, 66962>>, <<66964, 66965>>, <<66967, 66977>>, <<66979, 66993>>, <<66995, 67001>>,
    <<67003, 67004>>, <<68736, 68786>>, <<68800, 68850>>, <<71840, 71903>>, <<93760, 93823>>,
    <<119808, 119892>>, <<119894, 119964>>, <<119966, 119967>>, <<119970, 119970>>,
    <<119973, 119974>>, <<119977, 119980>>, <<119982, 119993>>, <<119995, 119995>>,
    <<119997, 120003>>, <<120005, 120069>>, <<120071, 120074>>, <<120077, 120084>>,
    <<120086, 120092>>, <<120094, 120121>>, <<120123, 120126>>, <<120128, 120132>>,
    <<120134, 120134>>, <<120138, 120144>>, <<120146, 120485>>, <<120488, 120512>>,
    <<120514, 120538>>, <<120540, 120570>>, <<120572, 120596>>, <<120598, 120628>>,
    <<120630, 120654>>, <<120656, 120686>>, <<120688, 120712>>, <<120714, 120744>>,
    <<120746, 120770>>, <<120772, 120779>>, <<122624, 122633>>, <<122635, 122654>>,
    <<125184, 125251>>, <<127280, 127305>>, <<127312, 127337>>, <<127344, 127369>>}
CaseIgnorableRanges ==
   {<<39, 39>>, <<46, 46>>, <<58, 58>>, <<94, 94>>, <<96, 96>>, <<168, 168>>, <<173, 173>>,
    <<175, 175>>, <<180, 180>>, <<183, 184>>, <<688, 879>>, <<884, 885>>, <<890, 890>>,
    <<900, 901>>, <<903, 903>>, <<1155, 1161>>, <<1369, 1369>>, <<1375, 1375>>, <<1425, 1469>>,
    <<1471, 1471>>, <<1473, 1474>>, <<1476, 1477>>, <<1479, 1479>>, <<1524, 1524>>, <<1536, 1541>>,
    <<1552, 1562>>, <<1564, 1564>>, <<1600, 1600>>, <<1611, 1631>>, <<1648, 1648>>, <<1750, 1757>>,
    <<1759, 1768>>, <<1770, 1773>>, <<1807, 1807>>, <<1809, 1809>>, <<1840, 1866>>, <<1958, 1968>>,
    <<2027, 2037>>, <<2042, 2042>>, <<2045, 2045>>, <<2070, 2093>>, <<2137, 2139>>, <<2184, 2184>>,
    <<2192, 2193>>, <<2200, 2207>>, <<2249, 2306>>, <<2362, 2362>>, <<2364, 2364>>, <<2369, 2376>>,
    <<2381, 2381>>, <<2385, 2391>>, <<2402, 2403>>, <<2417, 2417>>, <<2433, 2433>>, <<2492, 2492>>,
    <<2497, 2500>>, <<2509, 2509>>, <<2530, 2531>>, <<2558, 2558>>, <<2561, 2562>>, <<2620, 2620>>,
    <<2625, 2626>>, <<2631, 2632>>, <<2635, 2637>>, <<2641, 2641>>, <<2672, 2673>>, <<2677, 2677>>,
    <<2689, 2690>>, <<2748, 2748>>, <<2753, 2757>>, <<2759, 2760>>, <<2765, 2765>>, <<2786, 2787>>,
    <<2810, 2815>>, <<2817, 2817>>, <<2876, 2876>>, <<2879, 2879>>, <<2881, 2884>>, <<2893, 2893>>,
    <<2901, 2902>>, <<2914, 2915>>, <<2946, 2946>>, <<3008, 3008>>, <<3021, 3021>>, <<3072, 3072>>,
    <<3076, 3076>>, <<3132, 3132>>, <<3134, 3136>>, <<3142, 3144>>, <<3146, 3149>>, <<3157, 3158>>,
    <<3170, 3171>>, <<3201, 3201>>, <<3260, 3260>>, <<3263, 3263>>, <<3270, 3270>>, <<3276, 3277>>,
    <<3298, 3299>>, <<3328, 3329>>, <<3387, 3388>>, <<3393, 3396>>, <<3405, 3405>>, <<3426, 3427>>,
    <<3457, 3457>>, <<3530, 3530>>, <<3538, 3540>>, <<3542, 3542>>, <<3633, 3633>>, <<3636, 3642>>,
    <<3654, 3662>>, <<3761, 3761>>, <<3764, 3772>>, <<3782, 3782>>, <<3784, 3789>>, <<3864, 3865>>,
    <<3893, 3893>>, <<3895, 3895>>, <<3897, 3897>>, <<3953, 3966>>, <<3968, 3972>>, <<3974, 3975>>,
    <<3981, 3991>>, <<3993, 4028>>, <<4038, 4038>>, <<4141, 4144>>, <<4146, 4151>>, <<4153, 4154>>,
    <<4157, 4158>>, <<4184, 4185>>, <<4190, 4192>>, <<4209, 4212>>, <<4226, 4226>>, <<4229, 4230>>,
    <<4237, 4237>>, <<4253, 4253>>, <<4348, 4348>>, <<4957, 4959>>, <<5906, 5908>>, <<5938, 5939>>,
    <<5970, 5971>>, <<6002, 6003>>, <<6068, 6069>>, <<6071, 6077>>, <<6086, 6086>>, <<6089, 6099>>,
    <<6103, 6103>>, <<6109, 6109>>, <<6155, 6159>>, <<6211, 6211>>, <<6277, 6278>>, <<6313, 6313>>,
    <<6432, 6434>>, <<6439, 6440>>, <<6450, 6450>>, <<6457, 6459>>, <<6679, 6680>>, <<6683, 6683>>,
    <<6742, 6742>>, <<6744, 6750>>, <<6752, 6752>>, <<6754, 6754>>, <<6757, 6764>>, <<6771, 6780>>,
    <<6783, 6783>>, <<6823, 6823>>, <<6832, 6862>>, <<6912, 6915>>, <<6964, 6964>>, <<6966, 6970>>,
    <<6972, 6972>>, <<6978, 6978>>, <<7019, 7027>>, <<7040, 7041>>, <<7074, 7077>>, <<7080, 7081>>,
    <<7083, 7085>>, <<7142, 7142>>, <<7144, 7145>>, <<7149, 7149>>, <<7151, 7153>>, <<7212, 7219>>,
    <<7222, 7223>>, <<7288, 7293>>, <<7376, 7378>>, <<7380, 7392>>, <<7394, 7400>>, <<7405, 7405>>,
    <<7412, 7412>>, <<7416, 7417>>, <<7468, 7530>>, <<7544, 7544>>, <<7579, 7679>>, <<8125, 8125>>,
    <<8127, 8129>>, <<8141, 8143>>, <<8157, 8159>>, <<8173, 8175>>, <<8189, 8190>>, <<8203, 8207>>,
    <<8216, 8217>>, <<8228, 8228>>, <<8231, 8231>>, <<8234, 8238>>, <<8288, 8292>>, <<8294, 8303>>,
    <<8305, 8305>>, <<8319, 8319>>, <<8336, 8348>>, <<8400, 8432>>, <<11388, 11389>>,
    <<11503, 11505>>, <<11631, 11631>>, <<11647, 11647>>, <<11744, 11775>>, <<11823, 11823>>,
    <<12293, 12293>>, <<12330, 12333>>, <<12337, 12341>>, <<12347, 12347>>, <<12441, 12446>>,
    <<12540, 12542>>, <<40981, 40981>>, <<42232, 42237>>, <<42508, 42508>>, <<42607, 42610>>,
    <<42612, 42621>>, <<42623, 42623>>, <<42652, 42655>>, <<42736, 42737>>, <<42752, 42785>>,
    <<42864, 42864>>, <<42888, 42890>>, <<42994, 42996>>, <<43000, 43001>>, <<43010, 43010>>,
    <<43014, 43014>>, <<43019, 43019>>, <<43045, 43046>>, <<43052, 43052>>, <<43204, 43205>>,
    <<43232, 43249>>, <<43263, 43263>>, <<43302, 43309>>, <<43335, 43345>>, <<43392, 43394>>,
    <<43443, 43443>>, <<43446, 43449>>, <<43452, 43453>>, <<43471, 43471>>, <<43493, 43494>>,
    <<43561, 43566>>, <<43569, 43570>>, <<43573, 43574>>, <<43587, 43587>>, <<43596, 43596>>,
    <<43632, 43632>>, <<43644, 43644>>, <<43696, 43696>>, <<43698, 43700>>, <<43703, 43704>>,
    <<43710, 43711>>, <<43713, 43713>>, <<43741, 43741>>, <<43756, 43757>>, <<43763, 43764>>,
    <<43766, 43766>>, <<43867, 43871>>, <<43881, 43883>>, <<44005, 44005>>, <<44008, 44008>>,
    <<44013, 44013>>, <<64286, 64286>>, <<64434, 64450>>, <<65024, 65039>>, <<65043, 65043>>,
    <<65056, 65071>>, <<65106, 65106>>, <<65109, 65109>>, <<65279, 65279>>, <<65287, 65287>>,
    <<65294, 65294>>, <<65306, 65306>>, <<65342, 65342>>, <<65344, 65344>>, <<65392, 65392>>,
    <<65438, 65439>>, <<65507, 65507>>, <<65529, 65531>>, <<66045, 66045>>, <<66272, 66272>>,
    <<66422, 66426>>, <<67456, 67461>>, <<67463, 67504>>, <<67506, 67514>>, <<68097, 68099>>,
    <<68101, 68102>>, <<68108, 68111>>, <<68152, 68154>>, <<68159, 68159>>, <<68325, 68326>>,
    <<68900, 68903>>, <<69291, 69292>>, <<69446, 69456>>, <<69506, 69509>>, <<69633, 69633>>,
    <<69688, 69702>>, <<69744, 69744>>, <<69747, 69748>>, <<69759, 69761>>, <<69811, 69814>>,
    <<69817, 69818>>, <<69821, 69821>>, <<69826, 69826>>, <<69837, 69837>>, <<69888, 69890>>,
    <<69927, 69931>>, <<69933, 69940>>, <<70003, 70003>>, <<70016, 70017>>, <<70070, 70078>>,
    <<70089, 70092>>, <<70095, 70095>>, <<70191, 70193>>, <<70196, 70196>>, <<70198, 70199>>,
    <<70206, 70206>>, <<70367, 70367>>, <<70371, 70378>>, <<70400, 70401>>, <<70459, 70460>>,
    <<70464, 70464>>, <<70502, 70508>>, <<70512, 70516>>, <<70712, 70719>>, <<70722, 70724>>,
    <<70726, 70726>>, <<70750, 70750>>, <<70835, 70840>>, <<70842, 70842>>, <<70847, 70848>>,
    <<70850, 70851>>, <<71090, 71093>>, <<71100, 71101>>, <<71103, 71104>>, <<71132, 71133>>,
    <<71219, 71226>>, <<71229, 71229>>, <<71231, 71232>>, <<71339, 71339>>, <<71341, 71341>>,
    <<71344, 71349>>, <<71351, 71351>>, <<71453, 71455>>, <<71458, 71461>>, <<71463, 71467>>,
    <<71727, 71735>>, <<71737, 71738>>, <<71995, 71996>>, <<71998, 71998>>, <<72003, 72003>>,
    <<72148, 72151>>, <<72154, 72155>>, <<72160, 72160>>, <<72193, 72202>>, <<72243, 72248>>,
    <<72251, 72254>>, <<72263, 72263>>, <<72273, 72278>>, <<72281, 72283>>, <<72330, 72342>>,
    <<72344, 72345>>, <<72752, 72758>>, <<72760, 72765>>, <<72767, 72767>>, <<72850, 72871>>,
    <<72874, 72880>>, <<72882, 72883>>, <<72885, 72886>>, <<73009, 73014>>, <<73018, 73018>>,
    <<73020, 73021>>, <<73023, 73029>>, <<73031, 73031>>, <<73104, 73105>>, <<73109, 73109>>,
    <<73111, 73111>>, <<73459, 73460>>, <<78896, 78904>>, <<92912, 92916>>, <<92976, 92982>>,
    <<92992, 92995>>, <<94031, 94031>>, <<94095, 94111>>, <<94176, 94177>>, <<94179, 94180>>,
    <<110576, 110579>>, <<110581, 110587>>, <<110589, 110590>>, <<113821, 113822>>,
    <<113824, 113827>>, <<118528, 118573>>, <<118576, 118598>>, <<119143, 119145>>,
    <<119155, 119170>>, <<119173, 119179>>, <<119210, 119213>>, <<119362, 119364>>,
    <<121344, 121398>>, <<121403, 121452>>, <<121461, 121461>>, <<121476, 121476>>,
    <<121499, 121503>>, <<121505, 121519>>, <<122880, 122886>>, <<122888, 122904>>,
    <<122907, 122913>>, <<122915, 122916>>, <<122918, 122922>>, <<123184, 123197>>,
    <<123566, 123566>>, <<123628, 123631>>, <<125136, 125142>>, <<125252, 125259>>,
    <<127995, 127999>>, <<917505, 917505>>, <<917536, 917631>>, <<917760, 917999>>}

\* [0-9]
IsDigit(c) == Zero <= c /\ c <= Zero + 9
\* \d on a str pattern: the decimal digits of every script
IsDecimal(c) == InRanges(c, DecimalRanges)
\* \w on a str pattern: letters, digits and "_" of every script
IsWord(c) == InRanges(c, WordRanges)
\* the characters str.strip() removes
IsSpace(c) == InRanges(c, SpaceRanges)
\* "." without DOTALL: every character but the newline
IsDot(c) == c # Newline

\* str.lower(), one character: U+0130 gives "i" and U+0307
LowerChar(c) ==
    IF c = DottedCapitalI THEN <<LetterI, CombiningDot>>
    ELSE LET R == {r \in LowerRuns : r[1] <= c /\ c <= r[2] /\ (c - r[1]) % r[3] = 0}
         IN  IF R = {} THEN <<c>> ELSE <<c + (CHOOSE r \in R : TRUE)[4]>>

\* str.lower() on the capital sigma at s[k]: the final form when a cased
\* character comes before it and none comes after it, case-ignorable
\* characters skipped on both sides
FinalSigma(s, k) ==
    LET before == {j \in 1..(k - 1) : ~InRanges(s[j], CaseIgnorableRanges)}
        after  == {j \in (k + 1)..Len(s) : ~InRanges(s[j], CaseIgnorableRanges)}
    IN  /\ before # {} /\ InRanges(s[Max(before)], CasedRanges)
        /\ after = {} \/ ~InRanges(s[Min(after)], CasedRanges)

\* str.lower()
RECURSIVE LowerFrom(_, _)
LowerFrom(s, k) ==
    IF k > Len(s) THEN <<>>
    ELSE (IF s[k] = CapitalSigma
          THEN <<IF FinalSigma(s, k) THEN FinalSmallSigma ELSE SmallSigma>>
          ELSE LowerChar(s[k])) \o LowerFrom(s, k + 1)
lower(s) == LowerFrom(s, 1)

\* str.strip()
strip(s) ==
    LET keep == {k \in DOMAIN s : ~IsSpace(s[k])}
    IN  IF keep = {} THEN <<>> ELSE SubSeq(s, Min(keep), Max(keep))

\* int() on a match of INT_PATTERN: decimal digits of any script with an
\* optional sign
DigitVal(c) == (c - (CHOOSE r \in DecimalRanges : r[1] <= c /\ c <= r[2])[1]) % 10

\* the value of a run of digits; leading zeros add nothing to it
RECURSIVE NatOf(_)
NatOf(ds) ==
    IF \A k \in DOMAIN ds : DigitVal(ds[k]) = 0 THEN 0
    ELSE 10 * NatOf(SubSeq(ds, 1, Len(ds) - 1)) + DigitVal(ds[Len(ds)])

\* what an exception that is raised and not caught leaves in place of a result
ValueError == [raised |-> "ValueError"]

\* the most digits int() converts (sys.get_int_max_str_digits(), Python's
\* default): the sign is not counted, leading zeros are
MaxStrDigits == 4300

\* the digits of a match of INT_PATTERN, without its sign
IntDigits(s) == IF s[1] \in {Plus, Minus} THEN Tail(s) ELSE s

\* int(s) raises ValueError: s has more digits than int() converts
IntRaises(s) == Len(IntDigits(s)) > MaxStrDigits

int(s) ==
    IF IntRaises(s) THEN ValueError
    ELSE IF s[1] = Minus THEN 0 - NatOf(IntDigits(s))
    ELSE NatOf(IntDigits(s))

\* the end of the run of [0-9] that starts at p (p - 1 when there is none)
DigitsEnd(s, p) ==
    LET stop == {q \in p..Len(s) : ~IsDigit(s[q])}
    IN  IF stop = {} THEN Len(s) ELSE Min(stop) - 1

\* the end of the run of \d that starts at p (p - 1 when there is none)
DecimalsEnd(s, p) ==
    LET stop == {q \in p..Len(s) : ~IsDecimal(s[q])}
    IN  IF stop = {} THEN Len(s) ELSE Min(stop) - 1

(***************************************************************************)
(* The data types                                                          *)
(***************************************************************************)
\* class AssStyle(NamedTuple)
AssStyle(fontName, weight, italic) ==
    [fontName |-> fontName, weight |-> weight, italic |-> italic]

\* class Font(NamedTuple)
Font(fontPath, fontName, weight, italic) ==
    [fontPath |-> fontPath, fontName |-> fontName, weight |-> weight, italic |-> italic]

\* Font.__eq__ (and __hash__): the path is not compared
FontEq(a, b) ==
    a.fontName = b.fontName /\ a.italic = b.italic /\ a.weight = b.weight

\* set.add on a set of Font: an element equal to a member is not added
SetAddFont(S, f) == IF \E g \in S : FontEq(g, f) THEN S ELSE S \cup {f}

stripFontname(fontName) ==
    IF fontName # <<>> /\ fontName[1] = AtSign THEN Tail(fontName) ELSE fontName

(***************************************************************************)
(* The regular expressions (src/fontCollector.py:20-26).  Positions are    *)
(* 1-based; a match is given by the position after its last character.     *)
(***************************************************************************)
\* the smallest index >= from at which s has a character of cs, else Len(s) + 1
FirstIndexIn(s, from, cs) ==
    LET I == {k \in from..Len(s) : s[k] \in cs}
    IN  IF I = {} THEN Len(s) + 1 ELSE Min(I)

\* LINE_PATTERN.findall: (tags, text) of every match, left to right.  The
\* pattern matches at every position, and matches the empty string at the end
\* of the string only, so the list always ends with <<"", "">>.
RECURSIVE LINE_PATTERN_findall(_, _)
LINE_PATTERN_findall(s, pos) ==
    IF pos > Len(s) THEN << << <<>>, <<>> >> >>
    ELSE
        LET hasTags   == s[pos] = LBrace
            tagsEnd   == FirstIndexIn(s, pos + 1, {RBrace})
            tagsGroup == IF hasTags THEN SubSeq(s, pos + 1, tagsEnd - 1) ELSE <<>>
            textStart == IF ~hasTags THEN pos
                         ELSE IF tagsEnd <= Len(s) THEN tagsEnd + 1 ELSE tagsEnd
            textEnd   == FirstIndexIn(s, textStart, {LBrace})
            text      == SubSeq(s, textStart, textEnd - 1)
        IN  << <<tagsGroup, text>> >> \o LINE_PATTERN_findall(s, textEnd)

\* TAG_R_PATTERN.split(tags)[-1]: what follows the last "\r"
TAG_R_PATTERN_split_last(s) ==
    LET I == {k \in 1..(Len(s) - 1) : s[k] = BSlash /\ s[k + 1] = LetterR}
    IN  IF I = {} THEN s ELSE SubSeq(s, Max(I) + 2, Len(s))

\* TAG_BOLD_PATTERN, TAG_ITALIC_PATTERN (letter "b", "i") matched at p: the
\* index of the match's last character, 0 when there is no match at p
TagNumMatchEnd(s, p, letter) ==
    IF p + 2 <= Len(s) /\ s[p] = BSlash /\ s[p + 1] = letter
    THEN IF IsDigit(s[p + 2]) THEN DigitsEnd(s, p + 2)
         ELSE IF s[p + 2] \in {Plus, Minus} /\ p + 3 <= Len(s) /\ IsDigit(s[p + 3])
              THEN DigitsEnd(s, p + 3)
              ELSE 0
    ELSE 0

\* TAG_BOLD_PATTERN.findall, TAG_ITALIC_PATTERN.findall: the matched strings
RECURSIVE TagNumFindall(_, _, _)
TagNumFindall(s, pos, letter) ==
    LET P == {p \in pos..Len(s) : TagNumMatchEnd(s, p, letter) # 0}
    IN  IF P = {} THEN <<>>
        ELSE LET p == Min(P)
                 e == TagNumMatchEnd(s, p, letter)
             IN  <<SubSeq(s, p, e)>> \o TagNumFindall(s, e + 1, letter)

TAG_BOLD_PATTERN_findall(s) == TagNumFindall(s, 1, LetterB)
TAG_ITALIC_PATTERN_findall(s) == TagNumFindall(s, 1, LetterI)

\* INT_PATTERN.findall(s)[0] for a string that has a match
INT_PATTERN_first(s) ==
    LET starts == {k \in 1..Len(s) :
                      \/ IsDecimal(s[k])
                      \/ s[k] \in {Plus, Minus} /\ k + 1 <= Len(s) /\ IsDecimal(s[k + 1])}
        b == Min(starts)
        d == IF IsDecimal(s[b]) THEN b ELSE b + 1
    IN  SubSeq(s, b, DecimalsEnd(s, d))

\* TAG_FN_PATTERN: the lookbehinds (?<=\\fn) and (?<=fn) at position p
LookBehindBsFn(s, p) ==
    p >= 4 /\ s[p - 3] = BSlash /\ s[p - 2] = LetterF /\ s[p - 1] = LetterN
LookBehindFn(s, p) ==
    p >= 3 /\ s[p - 2] = LetterF /\ s[p - 1] = LetterN

\* "$" without MULTILINE at position q: the end of the text, or just before
\* a newline that ends it
AtEnd(s, q) == q = Len(s) + 1 \/ (q = Len(s) /\ s[q] = Newline)

\* (.*?) can match s[a..b]: it holds no newline
DotRun(s, a, b) == \A k \in a..b : IsDot(s[k])

\* the lookahead of the first alternative at position q:
\* (?=\)\\|\\|(?<=\w)(?=$)(?<=\w)(?=$))
LookAhead1(s, q) ==
    \/ q <= Len(s) /\ s[q] = BSlash
    \/ q + 1 <= Len(s) /\ s[q] = RParen /\ s[q + 1] = BSlash
    \/ AtEnd(s, q) /\ q >= 2 /\ IsWord(s[q - 1])

\* TAG_FN_PATTERN matched at p (mustAdvance: an empty match is not allowed,
\* as after an empty match at p).  The alternatives are tried in order; the
\* third and the fifth can match only where the first does.  ok, the position
\* after the match, and group 1 (empty unless the first alternative matched).
TAG_FN_PATTERN_match(s, p, mustAdvance) ==
    LET lo == IF mustAdvance THEN p + 1 ELSE p
        Q1 == {q \in lo..(Len(s) + 1) : LookAhead1(s, q) /\ DotRun(s, p, q - 1)}
        a  == FirstIndexIn(s, p, {LParen})
        b  == FirstIndexIn(s, a + 1, {RParen})
        Q4 == {q \in lo..Len(s) :
                  s[q] = RParen /\ AtEnd(s, q + 1) /\ DotRun(s, p, q - 1)}
    IN  IF LookBehindBsFn(s, p) /\ Q1 # {}
        THEN [ok |-> TRUE, end |-> Min(Q1), g1 |-> SubSeq(s, p, Min(Q1) - 1)]
        ELSE IF /\ LookBehindFn(s, p)
                /\ a <= Len(s) /\ DotRun(s, p, a - 1)
                /\ b <= Len(s) /\ DotRun(s, a + 1, b - 1)
        THEN [ok |-> TRUE, end |-> b + 1, g1 |-> <<>>]
        ELSE IF LookBehindBsFn(s, p) /\ Q4 # {}
        THEN [ok |-> TRUE, end |-> Min(Q4), g1 |-> <<>>]
        ELSE [ok |-> FALSE, end |-> p, g1 |-> <<>>]

\* TAG_FN_PATTERN.findall, searching from pos: group 1 of every match
RECURSIVE TAG_FN_PATTERN_findall(_, _, _)
TAG_FN_PATTERN_findall(s, pos, mustAdvance) ==
    LET P == {p \in pos..(Len(s) + 1) :
                 TAG_FN_PATTERN_match(s, p, mustAdvance /\ p = pos).ok}
    IN  IF P = {} THEN <<>>
        ELSE LET p == Min(P)
                 m == TAG_FN_PATTERN_match(s, p, mustAdvance /\ p = pos)
             IN  <<m.g1>> \o TAG_FN_PATTERN_findall(s, m.end, m.end = p)

(***************************************************************************)
(* The override-tag scanner                                                *)
(***************************************************************************)
\* parseTags, lines 104-125: the weight a bold tag's number gives
BoldWeight(boldNumber) ==
    IF boldNumber <= 0 THEN 400
    ELSE IF boldNumber = 1 THEN 700
    ELSE IF 2 <= boldNumber /\ boldNumber <= 150 THEN 100
    ELSE IF 151 <= boldNumber /\ boldNumber <= 250 THEN 200
    ELSE IF 251 <= boldNumber /\ boldNumber <= 350 THEN 300
    ELSE IF 351 <= boldNumber /\ boldNumber <= 450 THEN 400
    ELSE IF 451 <= boldNumber /\ boldNumber <= 550 THEN 500
    ELSE IF 551 <= boldNumber /\ boldNumber <= 650 THEN 600
    ELSE IF 651 <= boldNumber /\ boldNumber <= 750 THEN 700
    ELSE IF 751 <= boldNumber /\ boldNumber <= 850 THEN 800
    ELSE 900

\* parseTags, lines 98-125; int() at line 101 may raise
ApplyBold(cleanTag, st) ==
    LET bold == TAG_BOLD_PATTERN_findall(cleanTag)
    IN  IF bold # <<>>
        THEN LET number == INT_PATTERN_first(bold[Len(bold)])
             IN  IF IntRaises(number) THEN ValueError
                 ELSE [st EXCEPT !.weight = BoldWeight(int(number))]
        ELSE st

\* parseTags, lines 127-133
ApplyItalic(cleanTag, st) ==
    LET italic == TAG_ITALIC_PATTERN_findall(cleanTag)
    IN  IF italic # <<>> /\ INT_PATTERN_first(italic[Len(italic)]) = <<One>>
        THEN [st EXCEPT !.italic = TRUE]
        ELSE st

\* parseTags, lines 135-145 (the warning is printed and nothing else happens)
ApplyFontName(cleanTag, st) ==
    LET font == TAG_FN_PATTERN_findall(cleanTag, 1, FALSE)
    IN  IF Len(font) > 0
        THEN LET name == font[Len(font)]
             IN  IF LParen \notin Range(name) /\ RParen \notin Range(name)
                 THEN [st EXCEPT !.fontName = stripFontname(lower(strip(name)))]
                 ELSE st
        ELSE st

\* a split that keeps tagsList[0], the text before the first "\r"
CleanTagFirst(tagsText) ==
    LET I == {k \in 1..(Len(tagsText) - 1) : tagsText[k] = BSlash /\ tagsText[k + 1] = LetterR}
    IN  IF I = {} THEN tagsText ELSE SubSeq(tagsText, 1, Min(I) - 1)

\* the split of parseTags, lines 93-95
CleanTag(tagsText) == TAG_R_PATTERN_split_last(tagsText)

\* the style parseTags returns, or ValueError when line 101 raises it: the
\* italic and font-name tags are not read then
parseTags(tagsText, st) ==
    LET cleanTag == CleanTag(tagsText)
        bolded   == ApplyBold(cleanTag, st)
    IN  IF cleanTag # <<>>
        THEN IF bolded = ValueError THEN ValueError
             ELSE ApplyFontName(cleanTag, ApplyItalic(cleanTag, bolded))
        ELSE st

\* the text appended to every block of tags (line 169)
BlockEnd == <<BSlash, RBrace>>

\* the (tags, text) matches parseLine loops over (line 162)
LineMatches(text) ==
    LET all == LINE_PATTERN_findall(text, 1)
    IN  SubSeq(all, 1, Len(all) - 1)

\* the loop of parseLine over the (tags, text) matches, lines 162-170: the
\* set of styles, or ValueError when a call of parseTags raises it
RECURSIVE ParseLineLoop(_, _, _, _)
ParseLineLoop(matches, allLineTags, st, acc) ==
    IF matches = <<>> THEN acc
    ELSE LET allTags  == allLineTags \o matches[1][1] \o BlockEnd
             newStyle == parseTags(allTags, st)
         IN  IF newStyle = ValueError THEN ValueError
             ELSE ParseLineLoop(Tail(matches), allTags, st, acc \cup {newStyle})

\* a call of parseTags in the loop of parseLine raises ValueError
RECURSIVE LoopRaises(_, _, _)
LoopRaises(matches, allLineTags, st) ==
    /\ matches # <<>>
    /\ LET allTags == allLineTags \o matches[1][1] \o BlockEnd
       IN  \/ parseTags(allTags, st) = ValueError
           \/ LoopRaises(Tail(matches), allTags, st)

\* parseLine does not catch it
parseLineRaises(text, st) == LoopRaises(LineMatches(text), <<>>, st)

parseLine(text, st) == ParseLineLoop(LineMatches(text), <<>>, st, {})

(***************************************************************************)
(* The font matcher                                                        *)
(***************************************************************************)
\* the boost with "<=" for "<": a candidate exactly 150 below is boosted too
BoostInclusive(fontI, st) ==
    IF fontI.weight <= st.weight - 150 /\ st.weight <= 850
    THEN [fontI EXCEPT !.weight = fontI.weight + 150]
    ELSE fontI

\* searchFont, lines 223-224: the candidate as it is put in fontMatch
Boost(fontI, st) ==
    IF fontI.weight < st.weight - 150 /\ st.weight <= 850
    THEN [fontI EXCEPT !.weight = fontI.weight + 150]
    ELSE fontI

\* searchFont, lines 217-226: the loop over the pool, in the order the set
\* is iterated in
RECURSIVE Candidates(_, _)
Candidates(order, st) ==
    IF order = <<>> THEN <<>>
    ELSE IF order[1].fontName = st.fontName
         THEN <<Boost(order[1], st)>> \o Candidates(Tail(order), st)
         ELSE Candidates(Tail(order), st)

Abs(x) == IF x < 0 THEN 0 - x ELSE x
BoolInt(b) == IF b THEN 1 ELSE 0

\* a key with the weight distance before the italic flag
SortKeyDistanceFirst(font, st) ==
    IF st.italic
    THEN <<Abs(st.weight - font.weight), 0 - BoolInt(font.italic), font.weight>>
    ELSE <<Abs(st.weight - font.weight), BoolInt(font.italic), font.weight>>

\* searchFont, lines 229-232: the sort key of a candidate
SortKey(font, st) ==
    IF st.italic
    THEN <<0 - BoolInt(font.italic), Abs(st.weight - font.weight), font.weight>>
    ELSE <<BoolInt(font.italic), Abs(st.weight - font.weight), font.weight>>

\* the order of Python tuples of three integers
KeyLess(k1, k2) ==
    \/ k1[1] < k2[1]
    \/ k1[1] = k2[1] /\ k1[2] < k2[2]
    \/ k1[1] = k2[1] /\ k1[2] = k2[2] /\ k1[3] < k2[3]

\* list.sort(key=...) is stable: x goes after every element whose key is not
\* greater than its own
RECURSIVE InsertByKey(_, _, _)
InsertByKey(x, sorted, st) ==
    IF sorted = <<>> THEN <<x>>
    ELSE IF KeyLess(SortKey(x, st), SortKey(sorted[1], st))
         THEN <<x>> \o sorted
         ELSE <<sorted[1]>> \o InsertByKey(x, Tail(sorted), st)

RECURSIVE SortByKey(_, _)
SortByKey(list, st) ==
    IF list = <<>> THEN <<>>
    ELSE InsertByKey(list[Len(list)], SortByKey(SubSeq(list, 1, Len(list) - 1), st), st)

\* searchFont; `order` is fontCollection in the order `for fontI in
\* fontCollection` yields it
searchFont(order, st) == SortByKey(Candidates(order, st), st)

\* the orders a set can be iterated in
Orders(S) ==
    {f \in [1..Cardinality(S) -> S] : \A a, b \in 1..Cardinality(S) : a # b => f[a] # f[b]}

(***************************************************************************)
(* The inputs the specifications draw from.  A tag text is written from a  *)
(* sequence of tags, a line from blocks of tags and texts; the program     *)
(* sees the characters only.                                               *)
(***************************************************************************)
MaxTags == 3
MaxPairs == 2
MaxPool == 3
MaxEvents == 3

Tag(k, n, name) == [k |-> k, n |-> n, name |-> name]
TagB(n) == Tag("b", n, <<>>)
TagI(n) == Tag("i", n, <<>>)
TagFn(name) == Tag("fn", 0, name)
TagR == Tag("r", 0, <<>>)
TagSep == Tag("sep", 0, <<>>)

RECURSIVE NatChars(_)
NatChars(n) ==
    IF n < 10 THEN <<Zero + n>>
    ELSE NatChars(n \div 10) \o <<Zero + (n % 10)>>

IntChars(n) == IF n < 0 THEN <<Minus>> \o NatChars(0 - n) ELSE NatChars(n)

\* a bold tag whose argument n is written with the digits ds
TagBDigits(n, ds) == Tag("b", n, ds)

\* the number 1 written with n digits
ZerosThenOne(n) == [k \in 1..n |-> IF k = n THEN One ELSE Zero]

\* \b with the argument 1 in as many digits as int() converts, and in one more
TagBAtLimit == TagBDigits(1, ZerosThenOne(MaxStrDigits))
TagBOverLimit == TagBDigits(1, ZerosThenOne(MaxStrDigits + 1))

\* \b with the argument -1: the sign and as many digits as int() converts
TagBSignedAtLimit == TagBDigits(-1, <<Minus>> \o ZerosThenOne(MaxStrDigits))

Render(t) ==
    CASE t.k = "b"   -> <<BSlash, LetterB>> \o (IF t.name # <<>> THEN t.name ELSE IntChars(t.n))
      [] t.k = "i"   -> <<BSlash, LetterI>> \o IntChars(t.n)
      [] t.k = "fn"  -> <<BSlash, LetterF, LetterN>> \o t.name
      [] t.k = "r"   -> <<BSlash, LetterR>>
      [] t.k = "sep" -> BlockEnd

RECURSIVE RenderAll(_)
RenderAll(ts) == IF ts = <<>> THEN <<>> ELSE Render(ts[1]) \o RenderAll(Tail(ts))

SeqsUpTo(S, n) == UNION {[1..k -> S] : k \in 0..n}

NameA == Str(<<"A">>)
NameParen == Str(<<"B", " ", "(", "c", ")">>)

BoldArgs == {-1, 0, 1, 2, 150, 151, 250, 251, 350, 351, 450, 451, 550, 551,
             650, 651, 750, 751, 850, 851, 900, 1000}

\* \fn with no name is the tag that asks for the style's own font
NameNone == <<>>

\* a name outside ASCII: a no-break space (U+00A0), which str.strip() removes,
\* a capital whose small letter is U+0253 (U+0181), and a capital sigma in
\* final position
NameAccent == <<160, 385, CapitalSigma>>

TagTokens(n) ==
    {TagB(n), TagB(1), TagI(1), TagI(0), TagFn(NameA), TagFn(NameParen),
     TagFn(NameNone), TagFn(NameAccent), TagR, TagSep}

\* the tag texts with a bold argument of very many digits
LongTagSeqs ==
    {<<TagBOverLimit>>, <<TagBOverLimit, TagI(1)>>, <<TagB(150), TagBOverLimit>>,
     <<TagBOverLimit, TagB(150)>>, <<TagBOverLimit, TagR>>, <<TagR, TagBOverLimit>>,
     <<TagBOverLimit, TagSep, TagI(1)>>,
     <<TagBAtLimit>>, <<TagBAtLimit, TagI(1)>>, <<TagB(150), TagBAtLimit>>,
     <<TagBSignedAtLimit>>, <<TagB(1), TagBSignedAtLimit, TagI(1)>>}

BaseStyles == {AssStyle(Str(<<"z">>), 400, FALSE), AssStyle(Str(<<"z">>), 700, TRUE)}

LineBlocks ==
    {<<>>, <<TagB(1)>>, <<TagI(1)>>, <<TagFn(NameA)>>, <<TagFn(Str(<<"B">>))>>, <<TagR>>}
LineTexts == {<<>>, Str(<<"x">>)}
LinePairs == [block : LineBlocks, text : LineTexts]

\* the lines with a bold argument of very many digits
LinePair(block, text) == [block |-> block, text |-> text]
LongLines ==
    {[lead |-> <<>>, pairs |-> <<LinePair(<<TagBOverLimit>>, Str(<<"x">>))>>],
     [lead |-> Str(<<"x">>),
      pairs |-> <<LinePair(<<TagI(1)>>, Str(<<"x">>)), LinePair(<<TagBOverLimit>>, Str(<<"x">>))>>],
     [lead |-> <<>>,
      pairs |-> <<LinePair(<<TagBOverLimit>>, Str(<<"x">>)), LinePair(<<TagB(1)>>, Str(<<"x">>))>>],
     [lead |-> <<>>, pairs |-> <<LinePair(<<TagBAtLimit>>, Str(<<"x">>))>>]}

RECURSIVE RenderPairs(_)
RenderPairs(ps) ==
    IF ps = <<>> THEN <<>>
    ELSE <<LBrace>> \o RenderAll(ps[1].block) \o <<RBrace>> \o ps[1].text \o RenderPairs(Tail(ps))

RenderLine(sg) == sg.lead \o RenderPairs(sg.pairs)

FamilyA == Str(<<"a">>)
FamilyB == Str(<<"b">>)
FamilyC == Str(<<"c">>)

AllFonts ==
    {Font("a400", FamilyA, 400, FALSE), Font("a400i", FamilyA, 400, TRUE),
     Font("a500", FamilyA, 500, FALSE), Font("a500i", FamilyA, 500, TRUE),
     Font("a550", FamilyA, 550, FALSE), Font("a550i", FamilyA, 550, TRUE),
     Font("a650", FamilyA, 650, FALSE), Font("a650i", FamilyA, 650, TRUE),
     Font("a700", FamilyA, 700, FALSE), Font("a700i", FamilyA, 700, TRUE),
     Font("b400", FamilyB, 400, FALSE)}

Pools == {P \in SUBSET AllFonts : Cardinality(P) <= MaxPool}

RequiredStyles ==
    {AssStyle(f, w, it) : f \in {FamilyA, FamilyC}, w \in {400, 700, 900}, it \in BOOLEAN}

(***************************************************************************)
(* SpecTags: parseTags on a tag text as parseLine accumulates it: the      *)
(* blocks read so far, each followed by BlockEnd                           *)
(***************************************************************************)
InitTags ==
    /\ pc = "parseTags"
    /\ \/ \E n \in BoldArgs : toks \in SeqsUpTo(TagTokens(n), MaxTags)
       \/ toks \in LongTagSeqs
    /\ tags = RenderAll(toks) \o BlockEnd
    /\ style \in BaseStyles
    /\ tagStyle = style
    /\ segs = [lead |-> <<>>, pairs |-> <<>>] /\ lineRawText = <<>> /\ lineStyleSet = {}
    /\ fontCollection = {} /\ fontStyle = AssStyle(<<>>, 400, FALSE)
    /\ fontMatch = <<>> /\ prevMatch = <<>>
    /\ styles = <<>> /\ events = <<>> /\ i = 0 /\ styleSet = {} /\ pending = {}
    /\ fontsFound = {} /\ fontsMissing = {}
    /\ exitMsg = [style |-> "", line |-> 0]

ParseTagsCall ==
    /\ pc = "parseTags"
    /\ IF parseTags(tags, style) = ValueError
       THEN pc' = "ValueError" /\ UNCHANGED tagStyle
       ELSE pc' = "parseTagsReturned" /\ tagStyle' = parseTags(tags, style)
    /\ UNCHANGED <<toks, tags, style, segs, lineRawText, lineStyleSet, fontCollection,
                   fontStyle, fontMatch, prevMatch, styles, events, i, styleSet,
                   pending, fontsFound, fontsMissing, exitMsg>>

NextTags == ParseTagsCall

SpecTags == InitTags /\ [][NextTags]_vars

(***************************************************************************)
(* SpecLine: parseLine on a line                                           *)
(***************************************************************************)
InitLine ==
    /\ pc = "parseLine"
    /\ segs \in [lead : LineTexts, pairs : SeqsUpTo(LinePairs, MaxPairs)] \cup LongLines
    /\ lineRawText = RenderLine(segs)
    /\ style \in BaseStyles
    /\ lineStyleSet = {}
    /\ toks = <<>> /\ tags = <<>> /\ tagStyle = style
    /\ fontCollection = {} /\ fontStyle = AssStyle(<<>>, 400, FALSE)
    /\ fontMatch = <<>> /\ prevMatch = <<>>
    /\ styles = <<>> /\ events = <<>> /\ i = 0 /\ styleSet = {} /\ pending = {}
    /\ fontsFound = {} /\ fontsMissing = {}
    /\ exitMsg = [style |-> "", line |-> 0]

ParseLineCall ==
    /\ pc = "parseLine"
    /\ IF parseLineRaises(lineRawText, style)
       THEN pc' = "ValueError" /\ UNCHANGED lineStyleSet
       ELSE pc' = "parseLineReturned" /\ lineStyleSet' = parseLine(lineRawText, style)
    /\ UNCHANGED <<toks, tags, style, tagStyle, segs, lineRawText, fontCollection,
                   fontStyle, fontMatch, prevMatch, styles, events, i, styleSet,
                   pending, fontsFound, fontsMissing, exitMsg>>

NextLine == ParseLineCall

SpecLine == InitLine /\ [][NextLine]_vars

(***************************************************************************)
(* SpecMatch: searchFont, called again and again on one pool and style     *)
(***************************************************************************)
InitMatch ==
    /\ pc = "searchFont"
    /\ fontCollection \in Pools
    /\ fontStyle \in RequiredStyles
    /\ fontMatch = <<>> /\ prevMatch = <<>>
    /\ toks = <<>> /\ tags = <<>> /\ style = AssStyle(<<>>, 400, FALSE)
    /\ tagStyle = AssStyle(<<>>, 400, FALSE)
    /\ segs = [lead |-> <<>>, pairs |-> <<>>] /\ lineRawText = <<>> /\ lineStyleSet = {}
    /\ styles = <<>> /\ events = <<>> /\ i = 0 /\ styleSet = {} /\ pending = {}
    /\ fontsFound = {} /\ fontsMissing = {}
    /\ exitMsg = [style |-> "", line |-> 0]

\* one call of searchFont; the set is iterated in some order
SearchFontCall ==
    /\ pc \in {"searchFont", "searchFontReturned", "searchFontAgain"}
    /\ \E order \in Orders(fontCollection) :
           fontMatch' = searchFont(order, fontStyle)
    /\ prevMatch' = fontMatch
    /\ pc' = IF pc = "searchFont" THEN "searchFontReturned" ELSE "searchFontAgain"
    /\ UNCHANGED <<toks, tags, style, tagStyle, segs, lineRawText, lineStyleSet,
                   fontCollection, fontStyle, styles, events, i, styleSet,
                   pending, fontsFound, fontsMissing, exitMsg>>

NextMatch == SearchFontCall

SpecMatch == InitMatch /\ [][NextMatch]_vars

(***************************************************************************)
(* Spec: one run of the driver, getAssStyle then findUsedFont (main,       *)
(* lines 466-468)                                                          *)
(***************************************************************************)
\* the [V4+ Styles] entries of a document
DocStyle(name, fontname, bold, italic) ==
    [name |-> name, fontname |-> fontname, bold |-> bold, italic |-> italic]
DocDefault == DocStyle("Default", Str(<<" ", "@", "A">>), FALSE, FALSE)
DocAlt == DocStyle("Alt", Str(<<"B">>), TRUE, TRUE)
DocStyleLists == {<<DocDefault>>, <<DocDefault, DocAlt>>}

\* getAssStyle, lines 184-185: the dict of the document's styles
StylesDict(docStyles) ==
    [name \in {docStyles[k].name : k \in DOMAIN docStyles} |->
        LET d == docStyles[Max({k \in DOMAIN docStyles : docStyles[k].name = name})]
        IN  AssStyle(stripFontname(lower(strip(d.fontname))),
                     IF d.bold THEN 700 ELSE 400, d.italic)]

Event(dialogue, styleName, text) ==
    [dialogue |-> dialogue, style |-> styleName, text |-> text]

LineBoldItalic ==
    RenderLine([lead |-> <<>>,
                pairs |-> <<[block |-> <<TagB(1)>>, text |-> Str(<<"x">>)],
                            [block |-> <<TagI(1)>>, text |-> Str(<<"y">>)]>>])
LineFontC ==
    RenderLine([lead |-> <<>>,
                pairs |-> <<[block |-> <<TagFn(Str(<<"C">>))>>, text |-> Str(<<"x">>)]>>])

LineLongBold ==
    RenderLine([lead |-> <<>>, pairs |-> <<LinePair(<<TagBOverLimit>>, Str(<<"x">>))>>])

\* the documents with a bold argument of very many digits
LongDocs ==
    {<<Event(TRUE, "Default", LineLongBold)>>,
     <<Event(TRUE, "Default", LineBoldItalic), Event(TRUE, "Default", LineLongBold)>>,
     <<Event(TRUE, "Default", LineLongBold), Event(TRUE, "Ghost", Str(<<"x">>))>>,
     <<Event(TRUE, "Ghost", Str(<<"x">>)), Event(TRUE, "Default", LineLongBold)>>}

EventChoices ==
    {Event(FALSE, "Ghost", Str(<<"x">>)),
     Event(TRUE, "Default", LineBoldItalic),
     Event(TRUE, "Default", LineFontC),
     Event(TRUE, "Alt", Str(<<"x">>)),
     Event(TRUE, "Ghost", Str(<<"x">>))}

DriverFonts ==
    {Font("a400", FamilyA, 400, FALSE), Font("a400i", FamilyA, 400, TRUE),
     Font("a550", FamilyA, 550, FALSE), Font("b400", FamilyB, 400, FALSE)}

Init ==
    /\ pc = "getAssStyle"
    /\ \E docStyles \in DocStyleLists : styles = StylesDict(docStyles)
    /\ \/ events \in SeqsUpTo(EventChoices, MaxEvents) /\ fontCollection \in SUBSET DriverFonts
       \/ events \in LongDocs /\ fontCollection = DriverFonts
    /\ i = 0 /\ styleSet = {} /\ pending = {}
    /\ fontsFound = {} /\ fontsMissing = {}
    /\ exitMsg = [style |-> "", line |-> 0]
    /\ toks = <<>> /\ tags = <<>> /\ style = AssStyle(<<>>, 400, FALSE)
    /\ tagStyle = AssStyle(<<>>, 400, FALSE)
    /\ segs = [lead |-> <<>>, pairs |-> <<>>] /\ lineRawText = <<>> /\ lineStyleSet = {}
    /\ fontStyle = AssStyle(<<>>, 400, FALSE)
    /\ fontMatch = <<>> /\ prevMatch = <<>>

\* getAssStyle, line 188: an event that is no Dialogue is passed over
GetAssStyleSkip ==
    /\ pc = "getAssStyle" /\ i < Len(events)
    /\ ~events[i + 1].dialogue
    /\ i' = i + 1
    /\ UNCHANGED <<styleSet, pc, exitMsg>>

\* getAssStyle, lines 189-191: a Dialogue whose style is in the dict; a
\* ValueError of parseLine is no KeyError, so that it ends the run
GetAssStyleDialogue ==
    /\ pc = "getAssStyle" /\ i < Len(events)
    /\ events[i + 1].dialogue
    /\ events[i + 1].style \in DOMAIN styles
    /\ IF parseLineRaises(events[i + 1].text, styles[events[i + 1].style])
       THEN pc' = "ValueError" /\ UNCHANGED <<i, styleSet>>
       ELSE /\ styleSet' = styleSet \cup parseLine(events[i + 1].text, styles[events[i + 1].style])
            /\ i' = i + 1
            /\ UNCHANGED pc
    /\ UNCHANGED exitMsg

\* getAssStyle, lines 193-194: KeyError, the message and sys.exit
GetAssStyleUnknown ==
    /\ pc = "getAssStyle" /\ i < Len(events)
    /\ events[i + 1].dialogue
    /\ events[i + 1].style \notin DOMAIN styles
    /\ exitMsg' = [style |-> events[i + 1].style, line |-> i + 1]
    /\ pc' = "exit"
    /\ UNCHANGED <<i, styleSet>>

\* one turn of getAssStyle's loop
GetAssStyleStep ==
    /\ \/ GetAssStyleSkip
       \/ GetAssStyleDialogue
       \/ GetAssStyleUnknown
    /\ UNCHANGED <<toks, tags, style, tagStyle, segs, lineRawText, lineStyleSet,
                   fontCollection, fontStyle, fontMatch, prevMatch, styles, events,
                   pending, fontsFound, fontsMissing>>

\* getAssStyle, line 196, and the call of findUsedFont (line 468)
GetAssStyleReturn ==
    /\ pc = "getAssStyle" /\ i = Len(events)
    /\ pending' = styleSet
    /\ pc' = "findUsedFont"
    /\ UNCHANGED <<toks, tags, style, tagStyle, segs, lineRawText, lineStyleSet,
                   fontCollection, fontStyle, fontMatch, prevMatch, styles, events,
                   i, styleSet, fontsFound, fontsMissing, exitMsg>>

\* fontsMissing.add without its else: the family is reported for every style
MissingAfterAlways(missing, fm, st) == missing \cup {st.fontName}

\* findUsedFont, lines 251-254: fontsFound and fontsMissing after the style st
\* whose candidates are fm
FoundAfter(found, fm) == IF Len(fm) # 0 THEN SetAddFont(found, fm[1]) ELSE found
MissingAfter(missing, fm, st) == IF Len(fm) # 0 THEN missing ELSE missing \cup {st.fontName}

\* findUsedFont, lines 248-254: one turn of the loop over styleCollection
FindUsedFontStep ==
    /\ pc = "findUsedFont" /\ pending # {}
    /\ \E st \in pending : \E order \in Orders(fontCollection) :
           LET fm == searchFont(order, st)
           IN  /\ fontsFound' = FoundAfter(fontsFound, fm)
               /\ fontsMissing' = MissingAfter(fontsMissing, fm, st)
               /\ pending' = pending \ {st}
    /\ UNCHANGED <<toks, tags, style, tagStyle, segs, lineRawText, lineStyleSet,
                   fontCollection, fontStyle, fontMatch, prevMatch, styles, events,
                   i, styleSet, pc, exitMsg>>

\* findUsedFont, lines 256-263: the report and the return
FindUsedFontReturn ==
    /\ pc = "findUsedFont" /\ pending = {}
    /\ pc' = "done"
    /\ UNCHANGED <<toks, tags, style, tagStyle, segs, lineRawText, lineStyleSet,
                   fontCollection, fontStyle, fontMatch, prevMatch, styles, events,
                   i, styleSet, pending, fontsFound, fontsMissing, exitMsg>>

Next ==
    \/ GetAssStyleStep
    \/ GetAssStyleReturn
    \/ FindUsedFontStep
    \/ FindUsedFontReturn

Spec == Init /\ [][Next]_vars

(***************************************************************************)
(* The claims                                                              *)
(***************************************************************************)
\* the tags after the last reset tag (all of them when there is no reset)
HasReset(ts) == \E k \in DOMAIN ts : ts[k].k = "r"
LiveToks(ts) ==
    IF HasReset(ts)
    THEN SubSeq(ts, Max({k \in DOMAIN ts : ts[k].k = "r"}) + 1, Len(ts))
    ELSE ts
OfKind(ts, kind) == {k \in DOMAIN ts : ts[k].k = kind}
IsKind(t, kinds) == t.k \in kinds
NotReset(t) == t.k # "r"
NotFontName(t) == t.k # "fn"
HasParen(name) == LParen \in Range(name) \/ RParen \in Range(name)

\* the tag text parseLine has accumulated once it has read pair k of the line
RECURSIVE BlocksText(_, _)
BlocksText(ps, k) ==
    IF k = 0 THEN <<>>
    ELSE BlocksText(ps, k - 1) \o RenderAll(ps[k].block) \o BlockEnd
AccTags(sg, k) ==
    (IF sg.lead # <<>> THEN BlockEnd ELSE <<>>) \o BlocksText(sg.pairs, k)

\* C1: every style parseLine returns is the cumulative live style of a pair
\* (the leading text, or a block and the text after it) whose text is not
\* empty; a block followed by empty text contributes no style.
C1_OnlyNonEmptyText ==
    pc = "parseLineReturned" =>
        \A s \in lineStyleSet :
            \/ segs.lead # <<>> /\ s = parseTags(BlockEnd, style)
            \/ \E k \in DOMAIN segs.pairs :
                   /\ segs.pairs[k].text # <<>>
                   /\ s = parseTags(AccTags(segs, k), style)

\* C2: when the accumulated tag text has a reset tag, the effective style is
\* the one the tags after the last reset give on the base style, whatever
\* precedes that reset; with no tag after the last reset it is the base style.
\* When the call raises, the tags after the last reset alone raise as well.
C2_LastResetDiscardsEarlierTags ==
    /\ (pc = "parseTagsReturned" /\ HasReset(toks)) =>
           /\ tagStyle = parseTags(RenderAll(LiveToks(toks)) \o BlockEnd, style)
           /\ (\A k \in DOMAIN LiveToks(toks) : LiveToks(toks)[k].k = "sep") => tagStyle = style
    /\ (pc = "ValueError" /\ HasReset(toks)) =>
           parseTags(RenderAll(LiveToks(toks)) \o BlockEnd, style) = ValueError

\* C2 witness: a reset with tags on both sides of it, where the tags before
\* the reset would have changed the result had they been live
C2_Witness ==
    /\ pc = "parseTagsReturned" /\ HasReset(toks)
    /\ LiveToks(toks) # <<>>
    /\ tagStyle # style
    /\ tagStyle # parseTags(RenderAll(SelectSeq(toks, NotReset)) \o BlockEnd, style)

\* the mapping of C3, band by band
ClaimWeight(n) ==
    CASE n <= 0 -> 400
      [] n = 1 -> 700
      [] n \in 2..150 -> 100
      [] n \in 151..250 -> 200
      [] n \in 251..350 -> 300
      [] n \in 351..450 -> 400
      [] n \in 451..550 -> 500
      [] n \in 551..650 -> 600
      [] n \in 651..750 -> 700
      [] n \in 751..850 -> 800
      [] n >= 851 -> 900

\* C3: whenever the live text has a bold tag, parseTags returns, the weight
\* of the effective style is the image of the argument of the last bold tag
\* of the live text under the mapping of the claim, and it is a multiple of
\* 100 between 100 and 900: the mapping is total, so that no argument makes
\* the call end without a style.
C3_WeightOfLastBoldTag ==
    pc # "parseTags" =>
        LET live == LiveToks(toks)
        IN  OfKind(live, "b") # {} =>
                /\ pc = "parseTagsReturned"
                /\ tagStyle.weight = ClaimWeight(live[Max(OfKind(live, "b"))].n)
                /\ tagStyle.weight \in {100 * k : k \in 1..9}

\* C4: when the last font-name tag of the live text has a parenthesis in its
\* name, the family is the one of the latest earlier valid font-name tag of
\* the live text (the base family when there is none), and the bold and
\* italic tags are applied.
C4_RejectedNameKeepsPreviousFamily ==
    pc = "parseTagsReturned" =>
        LET live  == LiveToks(toks)
            F     == OfKind(live, "fn")
            V     == {k \in F : ~HasParen(live[k].name)}
            other == parseTags(RenderAll(SelectSeq(live, NotFontName)) \o BlockEnd, style)
        IN  (F # {} /\ HasParen(live[Max(F)].name)) =>
                /\ tagStyle.fontName =
                       IF V = {} THEN style.fontName
                       ELSE stripFontname(lower(strip(live[Max(V)].name)))
                /\ tagStyle.weight = other.weight
                /\ tagStyle.italic = other.italic

Returned == pc \in {"searchFontReturned", "searchFontAgain"}

\* C5: in searchFont's result the candidates with the required italic flag
\* come first; among candidates with the same flag the order is by ascending
\* distance of the comparison weight to the required weight, then by
\* ascending comparison weight.
C5_ItalicThenDistanceThenWeight ==
    Returned =>
        \A a, b \in DOMAIN fontMatch :
            a < b =>
                LET x  == fontMatch[a]
                    y  == fontMatch[b]
                    rx == IF x.italic = fontStyle.italic THEN 0 ELSE 1
                    ry == IF y.italic = fontStyle.italic THEN 0 ELSE 1
                    dx == Abs(x.weight - fontStyle.weight)
                    dy == Abs(y.weight - fontStyle.weight)
                IN  \/ rx < ry
                    \/ rx = ry /\ dx < dy
                    \/ rx = ry /\ dx = dy /\ x.weight <= y.weight

\* C5 witness: required (a, 700, italic), pool {a/700/upright, a/400/italic}:
\* the italic file is first although its weight is farther from 700
C5_Witness ==
    /\ Returned
    /\ fontStyle = AssStyle(FamilyA, 700, TRUE)
    /\ fontCollection = {Font("a700", FamilyA, 700, FALSE), Font("a400i", FamilyA, 400, TRUE)}
    /\ Len(fontMatch) = 2
    /\ fontMatch[1].fontPath = "a400i"
    /\ fontMatch[2].fontPath = "a700"

\* the comparison weight of C6
ClaimComparisonWeight(w, required) ==
    IF w < required - 150 /\ required <= 850 THEN w + 150 ELSE w

\* C6: every candidate of the required family is compared with its weight
\* plus 150 exactly when its weight is below the required weight minus 150
\* and the required weight is at most 850, and with its own weight otherwise.
C6_BoostRule ==
    Returned =>
        LET same == {f \in fontCollection : f.fontName = fontStyle.fontName}
        IN  /\ Len(fontMatch) = Cardinality(same)
            /\ \A f \in same :
                   \E k \in DOMAIN fontMatch :
                       /\ fontMatch[k].fontPath = f.fontPath
                       /\ fontMatch[k].weight =
                              ClaimComparisonWeight(f.weight, fontStyle.weight)

\* C6 witness: required 700; the candidate of weight 500 compares as 650 and
\* the candidate of weight 550, exactly 150 below, as 550
C6_Witness ==
    /\ Returned
    /\ fontStyle.weight = 700
    /\ \E k \in DOMAIN fontMatch : fontMatch[k].fontPath = "a500" /\ fontMatch[k].weight = 650
    /\ \E k \in DOMAIN fontMatch : fontMatch[k].fontPath = "a550" /\ fontMatch[k].weight = 550

\* C7: two calls of searchFont on the same pool and style return the same
\* list, file paths included, whatever order the pool is iterated in.
C7_SameOutputOnEveryCall ==
    pc = "searchFontAgain" => fontMatch = prevMatch

\* C8: when findUsedFont has returned, every required style is found (a file
\* of its family is in fontsFound) exactly when the pool has a file of its
\* family, and its family is in fontsMissing exactly when the pool has none;
\* every found file belongs to a required family.
C8_FoundMissingPartition ==
    pc = "done" =>
        /\ \A s \in styleSet :
               LET inPool  == \E f \in fontCollection : f.fontName = s.fontName
                   found   == \E f \in fontsFound : f.fontName = s.fontName
                   missing == s.fontName \in fontsMissing
               IN  (found <=> inPool) /\ (missing <=> ~inPool)
        /\ \A f \in fontsFound : \E s \in styleSet : s.fontName = f.fontName
        /\ \A m \in fontsMissing : \E s \in styleSet : s.fontName = m

\* C8 witness: a run that ended with a style found and another one missing
C8_Witness ==
    /\ pc = "done"
    /\ fontsFound # {}
    /\ fontsMissing # {}
    /\ Cardinality(styleSet) >= 3

\* the dialogue events whose style is not in the registry
BadEvents == {k \in DOMAIN events : events[k].dialogue /\ events[k].style \notin DOMAIN styles}

\* C9: when a dialogue event names an unknown style, the run stops at the
\* first such event: it never reads past it, never reaches findUsedFont, and
\* the message names that event's style and 1-based number; the run stops in
\* this way for no other reason.
C9_UnknownStyleAborts ==
    /\ BadEvents # {} =>
           /\ pc \in {"getAssStyle", "exit"}
           /\ pc = "getAssStyle" => i < Min(BadEvents)
           /\ pc = "exit" =>
                  /\ exitMsg = [style |-> events[Min(BadEvents)].style, line |-> Min(BadEvents)]
                  /\ pending = {} /\ fontsFound = {} /\ fontsMissing = {}
    /\ pc = "exit" => BadEvents # {}

\* C10: every file searchFont returns is a member of the pool, with the
\* weight it has in the pool.
C10_ReturnsPoolMembers ==
    Returned => \A k \in DOMAIN fontMatch : fontMatch[k] \in fontCollection

\* C11: the italic flag of the effective style is decided by the last italic
\* tag of the live text: italic with argument 1, not italic with any other
\* argument whatever the base style's flag is, and the base style's flag
\* when the live text has no italic tag; bold and font-name tags do not
\* change it.
C11_ItalicOfLastItalicTag ==
    pc = "parseTagsReturned" =>
        LET live == LiveToks(toks)
            I    == OfKind(live, "i")
        IN  tagStyle.italic = IF I = {} THEN style.italic ELSE live[Max(I)].n = 1

\* the style one tag alone gives on the base style st
TagAlone(t, st) == parseTags(Render(t) \o BlockEnd, st)

\* C12: for an accumulated tag text of blocks B1..Bk with no reset tag, the
\* effective style is the base style with the last bold tag, the last italic
\* tag and the last font-name tag of B1..Bk applied: a kind that the last
\* block does not set keeps the value of the latest earlier block, and
\* nothing but its own name is read as the name of a font-name tag.
C12_TagsCumulativeAcrossBlocks ==
    (pc = "parseTagsReturned" /\ ~HasReset(toks)) =>
        LET B == OfKind(toks, "b")
            I == OfKind(toks, "i")
            F == OfKind(toks, "fn")
        IN  /\ tagStyle.weight =
                   IF B = {} THEN style.weight ELSE TagAlone(toks[Max(B)], style).weight
            /\ tagStyle.italic =
                   IF I = {} THEN style.italic ELSE TagAlone(toks[Max(I)], style).italic
            /\ tagStyle.fontName =
                   IF F = {} THEN style.fontName ELSE TagAlone(toks[Max(F)], style).fontName

====
